---- MODULE Spec2Model ----
(***************************************************************************)
(* A model of src/src/App.js: one <Wave/> renderable inside                *)
(* <Canvas><Suspense fallback={null}>, its texture loaded with useLoader,  *)
(* its material's uTime written by a useFrame callback on every display    *)
(* tick, and the vertex / fragment shader pair of WaveShaderMaterial.      *)
(*                                                                         *)
(* Numbers.  GLSL and JavaScript floats are modelled in fixed point:       *)
(*   - lengths and noise coordinates in units of 1/Unit (Unit = 240, so    *)
(*     that every vertex of the 16x16 grid, the factor 2.5 and the simplex *)
(*     constants 1/6, 1/3, 1/2 are integers);                              *)
(*   - noise values, displaced z, wave and UV in units of 1/NoiseScale;    *)
(*   - clock values in quanta of 1/4 second (TimeQuantum units).           *)
(* Products are cut back to the scale by floor division, which stands for  *)
(* the limited precision of mediump floats.                                *)
(***************************************************************************)
EXTENDS Integers, Sequences, FiniteSets

\* ------------------------------------------------------------------ bounds
\* Largest value of performance.now() explored, in clock quanta.
MaxTime == 2
\* Largest advance of performance.now() between two reads, in clock quanta.
MaxDelta == 1
\* Number of candidate images the texture URL may deliver.
NumImages == 2
\* Width and height, in texels, of a candidate image.
TexSize == 2
\* Largest number of times the Wave function component is rendered.
MaxRenders == 3

\* ------------------------------------------------------- fixed-point scales
Unit == 16 * 15
UnitSq == Unit * Unit
TimeQuantum == Unit \div 4
GradScale == 2 * 7
NormScale == 100 * 100
NoiseScale == UnitSq * GradScale * Unit

Abs(a) == IF a < 0 THEN -a ELSE a
Max(a, b) == IF a >= b THEN a ELSE b
Min(a, b) == IF a <= b THEN a ELSE b
Clamp(a, lo, hi) == Max(lo, Min(a, hi))
Dot3(a, b) == a[1] * b[1] + a[2] * b[2] + a[3] * b[3]
\* GLSL step(edge, x)
Step(edge, x) == IF x < edge THEN 0 ELSE 1

\* ------------------------------------------- snoise3 (glsl-noise/simplex/3d)
mod289(x) == x % 289
permute(x) == mod289((x * 34 + 1) * x)

\* The gradient of one simplex corner from its hash p: 7x7 points over a
\* square, folded onto an octahedron; components in units of 1/GradScale.
Gradient(p) ==
    LET j == p % 49
        x_ == j \div 7
        y_ == j % 7
        x == 4 * x_ - 13
        y == 4 * y_ - 13
        h == GradScale - Abs(x) - Abs(y)
        sx == IF x < 0 THEN -1 ELSE 1
        sy == IF y < 0 THEN -1 ELSE 1
        sh == -Step(h, 0)
    IN  <<x + GradScale * sx * sh, y + GradScale * sy * sh, h>>

\* taylorInvSqrt(r) = 1.79284291400159 - 0.85373472095314 * r, r = dot(g, g),
\* in units of 1/NormScale.
taylorInvSqrt(g) == 17928 - (8537 * Dot3(g, g)) \div (GradScale * GradScale)

\* One corner's term m^4 * dot(grad, x), m = max(0.6 - dot(x, x), 0).
CornerTerm(p, x) ==
    LET g == Gradient(p)
        m == Max((6 * UnitSq) \div 10 - Dot3(x, x), 0)
        m2 == (m * m) \div UnitSq
        m4 == (m2 * m2) \div UnitSq
    IN  m4 * ((Dot3(g, x) * taylorInvSqrt(g)) \div NormScale)

\* The simplex cell of v: i = floor(v + dot(v, 1/3)).
Skew(v) ==
    LET s == v[1] + v[2] + v[3]
    IN  <<(3 * v[1] + s) \div (3 * Unit), (3 * v[2] + s) \div (3 * Unit),
          (3 * v[3] + s) \div (3 * Unit)>>

\* The offset of v from its cell's first corner: x0 = v - i + dot(i, 1/6).
Unskew(v, i) ==
    LET t == (Unit \div 6) * (i[1] + i[2] + i[3])
    IN  <<v[1] - Unit * i[1] + t, v[2] - Unit * i[2] + t, v[3] - Unit * i[3] + t>>

\* The second and third corners: g = step(x0.yzx, x0.xyz), l = 1 - g,
\* i1 = min(g.xyz, l.zxy), i2 = max(g.xyz, l.zxy).
Order(x0) ==
    LET g == <<Step(x0[2], x0[1]), Step(x0[3], x0[2]), Step(x0[1], x0[3])>>
    IN  [i1 |-> <<Min(g[1], 1 - g[3]), Min(g[2], 1 - g[1]), Min(g[3], 1 - g[2])>>,
         i2 |-> <<Max(g[1], 1 - g[3]), Max(g[2], 1 - g[1]), Max(g[3], 1 - g[2])>>]

\* The offset from the k-th corner, at cell offset o: x0 - o + k/6.
Offset(x0, o, k) ==
    <<x0[1] - Unit * o[1] + (k * Unit) \div 6, x0[2] - Unit * o[2] + (k * Unit) \div 6,
      x0[3] - Unit * o[3] + (k * Unit) \div 6>>

\* The hash of the corner at cell offset o.
Hash(i, o) ==
    permute(permute(permute(mod289(i[3]) + o[3]) + mod289(i[2]) + o[2]) + mod289(i[1]) + o[1])

Corner(i, x0, o, k) == CornerTerm(Hash(i, o), Offset(x0, o, k))

Mix(i, x0, ord) ==
    42 * ( Corner(i, x0, <<0, 0, 0>>, 0) + Corner(i, x0, ord.i1, 1)
         + Corner(i, x0, ord.i2, 2) + Corner(i, x0, <<1, 1, 1>>, 3) )

Simplex(i, x0) == Mix(i, x0, Order(x0))

\* snoise3(v) for v in units of 1/Unit; the result in units of 1/NoiseScale.
snoise3(v) == Simplex(Skew(v), Unskew(v, Skew(v)))

\* ------------------------------------------------------------ colours, images
Black == <<0, 0, 0>>
HotPink == <<255, 105, 180>>
Green == <<0, 128, 0>>
TintColors == {Black, HotPink, Green}

\* new THREE.Texture(): a texture with no image.
EmptyTexture == [size |-> 0, texel |-> << >>]

\* The k-th image the URL may deliver, as a TexSize x TexSize grid of RGB texels.
Image(k) ==
    [size |-> TexSize,
     texel |-> [t \in (0 .. TexSize - 1) \X (0 .. TexSize - 1) |->
                  <<(40 * k + 90 * t[1]) % 256, (120 * t[2] + 15) % 256, (70 * k) % 256>>]]
Images == {Image(k) : k \in 1 .. NumImages}

\* texture2D(tex, uv).rgb for uv in units of 1/NoiseScale: the texel that
\* holds uv, coordinates clamped to the edge (THREE's default wrapping).
texture2D(tex, uv) ==
    IF tex.size = 0 THEN Black
    ELSE tex.texel[<<Clamp((uv[1] * tex.size) \div NoiseScale, 0, tex.size - 1),
                     Clamp((uv[2] * tex.size) \div NoiseScale, 0, tex.size - 1)>>]

\* ------------------------------------------------------------------ geometry
WidthSegments == 16
HeightSegments == 16
PlaneWidth == (4 * Unit) \div 10
PlaneHeight == (6 * Unit) \div 10

\* <planeBufferGeometry args={[0.4, 0.6, 16, 16]} />
planeBufferGeometry ==
    [width |-> PlaneWidth, height |-> PlaneHeight,
     widthSegments |-> WidthSegments, heightSegments |-> HeightSegments]

\* The grid vertices <<ix, iy>> of a plane geometry, with their attributes.
Vertices(g) == (0 .. g.widthSegments) \X (0 .. g.heightSegments)
Position(g, v) ==
    << (v[1] * g.width) \div g.widthSegments - g.width \div 2,
       -((v[2] * g.height) \div g.heightSegments - g.height \div 2),
       0 >>
Uv(g, v) ==
    << v[1] * (NoiseScale \div g.widthSegments),
       NoiseScale - v[2] * (NoiseScale \div g.heightSegments) >>

\* -------------------------------------------------------- WaveShaderMaterial
\* shaderMaterial's uniform defaults.
WaveShaderMaterial ==
    [type |-> "WaveShaderMaterial", uTime |-> 0, uColor |-> Black, uTexture |-> EmptyTexture]

\* Vertex shader main(): the varyings and the displaced model-space position
\* (x, y in units of 1/Unit, z in units of 1/NoiseScale).  gl_Position is this
\* position under the fixed camera's projection, which is left out.
VertexMain(u, position, uv) ==
    LET noisePos == <<(position[1] * 25) \div 10 + u.uTime * TimeQuantum, position[2], position[3]>>
        z == position[3] * (NoiseScale \div Unit) + (snoise3(noisePos) * 7) \div 10
    IN  [vUv |-> uv, vWave |-> z, pos |-> <<position[1], position[2], z>>]

\* Line 63 of the source, commented out there: the tint multiplied into the output.
TintedFragmentMain(u, vy) ==
    LET wave == vy.vWave \div 10
        texture == texture2D(u.uTexture, <<vy.vUv[1] + wave, vy.vUv[2] + wave>>)
    IN  [rgb |-> <<(texture[1] * u.uColor[1]) \div 255, (texture[2] * u.uColor[2]) \div 255,
                   (texture[3] * u.uColor[3]) \div 255>>, a |-> 1]

\* A fragment stage that samples at the undistorted UV.
FlatFragmentMain(u, vy) ==
    [rgb |-> texture2D(u.uTexture, vy.vUv), a |-> 1]

\* Fragment shader main(), run on a vertex's own varyings.
FragmentMain(u, vy) ==
    LET wave == vy.vWave \div 10
        texture == texture2D(u.uTexture, <<vy.vUv[1] + wave, vy.vUv[2] + wave>>)
    IN  [rgb |-> texture, a |-> 1]

\* What one draw call of a mesh produces, per vertex.
DrawMesh(mesh) ==
    [v \in Vertices(mesh.geometry) |->
        LET vy == VertexMain(mesh.material, Position(mesh.geometry, v), Uv(mesh.geometry, v))
        IN  [pos |-> vy.pos, vWave |-> vy.vWave, color |-> FragmentMain(mesh.material, vy)]]

\* ------------------------------------------------------------------- state
VARIABLES
    page,         \* the React root: "intact", "tornDown" (uncaught error), "unmounted"
    uncaught,     \* an error has been thrown out of the React root
    fiber,         \* the Wave fiber: "unrendered", "suspended", "mounted", "gone"
    renders,      \* how many times the Wave function has run
    cache,        \* useLoader's cache entry for the URL
    requests,     \* GET requests issued for the URL
    scene,        \* the meshes of the three.js scene
    ref,          \* ref.current: 0 when unset, else the index in scene of the mesh whose material it holds
    subscribers,  \* the components whose useFrame callback is subscribed
    derefError,   \* a callback has dereferenced an unset ref
    now,          \* performance.now(), in clock quanta
    clock,        \* the THREE.Clock of the root
    frame,        \* the last frame drawn
    prevFrame     \* the frame drawn before it

vars == <<page, uncaught, fiber, renders, cache, requests, scene, ref, subscribers,
          derefError, now, clock, frame, prevFrame>>

NoImage == [size |-> 0, texel |-> << >>]
NoFrame == [drawn |-> FALSE, meshes |-> 0, elapsed |-> 0, uniforms |-> << >>, pixels |-> << >>]

Init ==
    /\ page = "intact"
    /\ uncaught = FALSE
    /\ fiber = "unrendered"
    /\ renders = 0
    /\ cache = [status |-> "none", image |-> NoImage]
    /\ requests = 0
    /\ scene = << >>
    /\ ref = 0
    /\ subscribers = {}
    /\ derefError = FALSE
    /\ now = 0
    /\ clock = [oldTime |-> 0, elapsedTime |-> 0]
    /\ frame = NoFrame
    /\ prevFrame = NoFrame

\* ------------------------------------------------------------------ hooks
\* A loader that keeps no cache entry: every render that finds no image
\* starts a request.
useLoaderUncached(c) ==
    IF c.status = "resolved"
    THEN [outcome |-> "value", cache |-> c, issued |-> 0]
    ELSE IF c.status = "rejected"
    THEN [outcome |-> "error", cache |-> c, issued |-> 0]
    ELSE [outcome |-> "promise", cache |-> [c EXCEPT !.status = "pending"], issued |-> 1]

\* useLoader(THREE.TextureLoader, [url]): the first call starts the request
\* and throws its promise; later calls find the cache entry and throw the
\* same promise, throw the load error, or return the image.
useLoader(c) ==
    IF c.status = "none"
    THEN [outcome |-> "promise", cache |-> [c EXCEPT !.status = "pending"], issued |-> 1]
    ELSE IF c.status = "pending"
    THEN [outcome |-> "promise", cache |-> c, issued |-> 0]
    ELSE IF c.status = "rejected"
    THEN [outcome |-> "error", cache |-> c, issued |-> 0]
    ELSE [outcome |-> "value", cache |-> c, issued |-> 0]

\* A useFrame that subscribes while the component renders, not when it commits.
useFrameEager(outcome, subs) ==
    IF outcome = "error" THEN {} ELSE subs \cup {"Wave"}

\* useFrame(callback): the subscription is made by an effect, so only a
\* render that completes and commits subscribes; an error unmounts the tree.
useFrame(outcome, subs) ==
    IF outcome = "value" THEN subs \cup {"Wave"}
    ELSE IF outcome = "error" THEN {}
    ELSE subs

\* The props of <waveShaderMaterial uColor={"hotpink"} uTexture={image} />.
applyProps(material, image) ==
    [material EXCEPT !.uColor = HotPink, !.uTexture = image]

\* A commit that builds the returned <mesh> anew on every render.
CommitWaveAppend(sc, image) ==
    Append(sc, [geometry |-> planeBufferGeometry, material |-> applyProps(WaveShaderMaterial, image)])

\* The commit of Wave's returned <mesh>: the first one constructs the mesh,
\* its geometry and its material; a later one re-applies the props to them.
CommitWave(sc, image) ==
    IF sc = << >>
    THEN <<[geometry |-> planeBufferGeometry, material |-> applyProps(WaveShaderMaterial, image)]>>
    ELSE [sc EXCEPT ![1].material = applyProps(@, image)]

\* THREE.Clock.getDelta() at time t; getElapsedTime() calls it and returns
\* elapsedTime.
getDelta(c, t) == [oldTime |-> t, elapsedTime |-> c.elapsedTime + (t - c.oldTime)]

\* A callback that writes to a field the material does not read.
CallbackNoWrite(material, c, t) == material
\* A callback that rebuilds the uniforms from the defaults.
CallbackReset(material, c, t) ==
    [WaveShaderMaterial EXCEPT !.uTime = getDelta(c, t).elapsedTime]
\* A callback that writes the time since the last frame.
CallbackDelta(material, c, t) == [material EXCEPT !.uTime = t - c.oldTime]
\* A callback that counts frames.
CallbackCount(material, c, t) == [material EXCEPT !.uTime = @ + 1]

\* The useFrame callback: ref.current.uTime = clock.getElapsedTime().
FrameCallback(material, c, t) ==
    [material EXCEPT !.uTime = getDelta(c, t).elapsedTime]

\* gl.render(scene, camera): the frame the canvas shows.
Draw(sc, c) ==
    [drawn |-> TRUE, meshes |-> Len(sc), elapsed |-> c.elapsedTime,
     uniforms |-> IF sc = << >> THEN << >> ELSE sc[1].material,
     pixels |-> IF sc = << >> THEN << >> ELSE DrawMesh(sc[1])]

\* ----------------------------------------------------------------- actions
\* One render of <Wave/> under <Suspense fallback={null}>, with its commit.
RenderWave ==
    /\ page = "intact"
    /\ renders < MaxRenders
    /\ renders' = renders + 1
    /\ LET r == useLoader(cache) IN
        /\ cache' = r.cache
        /\ requests' = requests + r.issued
        /\ subscribers' = useFrame(r.outcome, subscribers)
        /\ IF r.outcome = "promise"
           THEN /\ fiber' = "suspended"
                /\ UNCHANGED <<page, uncaught, scene, ref>>
           ELSE IF r.outcome = "error"
           THEN /\ fiber' = "gone"
                /\ page' = "tornDown"
                /\ uncaught' = TRUE
                /\ scene' = << >>
                /\ ref' = 0
           ELSE /\ fiber' = "mounted"
                /\ scene' = CommitWave(scene, r.cache.image)
                /\ ref' = Len(scene')
                /\ UNCHANGED <<page, uncaught>>
    /\ UNCHANGED <<derefError, now, clock, frame, prevFrame>>

\* The image arrives: the loader's promise resolves with the texture.
LoadResolve ==
    /\ cache.status = "pending"
    /\ \E img \in Images : cache' = [status |-> "resolved", image |-> img]
    /\ UNCHANGED <<page, uncaught, fiber, renders, requests, scene, ref, subscribers,
                   derefError, now, clock, frame, prevFrame>>

\* The request fails: the loader's promise rejects.
LoadReject ==
    /\ cache.status = "pending"
    /\ cache' = [cache EXCEPT !.status = "rejected"]
    /\ UNCHANGED <<page, uncaught, fiber, renders, requests, scene, ref, subscribers,
                   derefError, now, clock, frame, prevFrame>>

\* The page unmounts the React root: effects are cleaned up, refs detached
\* and the scene emptied in one commit.
UnmountApp ==
    /\ page = "intact"
    /\ page' = "unmounted"
    /\ fiber' = "gone"
    /\ scene' = << >>
    /\ ref' = 0
    /\ subscribers' = {}
    /\ UNCHANGED <<uncaught, renders, cache, requests, derefError, now, clock, frame, prevFrame>>

\* One display tick of the render loop: the clock is read, every subscribed
\* callback runs, then the scene is drawn.
Tick ==
    \E d1 \in 0 .. MaxDelta, d2 \in 0 .. MaxDelta :
        LET t1 == now + d1
            t2 == t1 + d2
            c1 == getDelta(clock, t1)
        IN  /\ t2 <= MaxTime
            /\ now' = t2
            /\ IF subscribers = {}
               THEN /\ clock' = c1
                    /\ frame' = Draw(scene, c1)
                    /\ prevFrame' = frame
                    /\ UNCHANGED <<scene, derefError>>
               ELSE IF ref = 0
               THEN /\ clock' = c1
                    /\ derefError' = TRUE
                    /\ UNCHANGED <<scene, frame, prevFrame>>
               ELSE /\ clock' = getDelta(c1, t2)
                    /\ scene' = [scene EXCEPT ![ref].material = FrameCallback(@, c1, t2)]
                    /\ frame' = Draw(scene', clock')
                    /\ prevFrame' = frame
                    /\ UNCHANGED derefError
            /\ UNCHANGED <<page, uncaught, fiber, renders, cache, requests, ref, subscribers>>

Next == RenderWave \/ LoadResolve \/ LoadReject \/ UnmountApp \/ Tick

Spec == Init /\ [][Next]_vars

\* ------------------------------------------------------------------ claims
\* The vertex of the mounted mesh's geometry whose UV is (0.5, 0.5).
CentreVertex == CHOOSE v \in Vertices(planeBufferGeometry) :
                    Uv(planeBufferGeometry, v) = <<NoiseScale \div 2, NoiseScale \div 2>>

\* C1, as stated: while the root is up, the scene holds no mesh until the
\* texture load has resolved and, from the moment it has resolved, exactly
\* one mesh carrying one wave-shader material.
C1_MeshIffResolved ==
    page = "intact" =>
        /\ (cache.status # "resolved" => Len(scene) = 0)
        /\ (cache.status = "resolved" =>
               /\ Len(scene) = 1
               /\ scene[1].material.type = "WaveShaderMaterial")

\* C1, amended: there is never more than one mesh, in the scene or in a drawn
\* frame; there is none until the load has resolved; and once the render of
\* Wave that follows the resolution has committed there is exactly one,
\* carrying one wave-shader material bound to the loaded image.
C1_MeshOnceCommitted ==
    /\ Len(scene) <= 1
    /\ frame.meshes <= 1
    /\ (cache.status # "resolved" => Len(scene) = 0)
    /\ (fiber # "mounted" => Len(scene) = 0)
    /\ (fiber = "mounted" =>
           /\ cache.status = "resolved"
           /\ Len(scene) = 1
           /\ scene[1].material.type = "WaveShaderMaterial"
           /\ scene[1].material.uTexture = cache.image)

\* A frame with the mesh follows a frame without it, and Wave has been
\* rendered again after it mounted.
C1_Witness ==
    /\ fiber = "mounted"
    /\ renders >= 3
    /\ frame.meshes = 1
    /\ prevFrame.drawn /\ prevFrame.meshes = 0

\* C2: every frame drawn with the mesh in it is drawn with uTime equal to the
\* elapsed time the clock returned on that tick, so never with the default 0
\* once the clock has advanced.
C2_DrawnWithCurrentTime ==
    (frame.drawn /\ frame.meshes >= 1) =>
        /\ frame.uniforms.uTime = frame.elapsed
        /\ frame.elapsed = clock.elapsedTime
        /\ (clock.elapsedTime > 0 => frame.uniforms.uTime # 0)

\* Two frames drawn with the mesh, the clock having advanced between them.
C2_Witness ==
    /\ frame.meshes = 1 /\ prevFrame.meshes = 1
    /\ prevFrame.uniforms.uTime > 0
    /\ frame.uniforms.uTime > prevFrame.uniforms.uTime

\* C3: whatever ticks and renders have happened, the mounted material's
\* uColor and uTexture are the ones given at construction and the geometry
\* is 0.4 wide, 0.6 high and subdivided 16 x 16.
C3_OnlyTimeChanges ==
    Len(scene) >= 1 =>
        /\ scene[1].material.uColor = HotPink
        /\ scene[1].material.uTexture = cache.image
        /\ scene[1].material.type = "WaveShaderMaterial"
        /\ 10 * scene[1].geometry.width = 4 * Unit
        /\ 10 * scene[1].geometry.height = 6 * Unit
        /\ scene[1].geometry.widthSegments = 16
        /\ scene[1].geometry.heightSegments = 16
        /\ (frame.meshes >= 1 =>
               /\ frame.uniforms.uColor = HotPink
               /\ frame.uniforms.uTexture = cache.image
               /\ Cardinality(DOMAIN frame.pixels) = 17 * 17)

\* The callback has written a non-zero time on the second of two ticks.
C3_Witness ==
    /\ Len(scene) = 1
    /\ scene[1].material.uTime > 0
    /\ frame.meshes = 1 /\ prevFrame.meshes = 1

\* C4: a material instance starts with uTime 0 and no step ever stores a
\* smaller uTime than the one it held.
C4_TimeMonotonic ==
    [][ /\ (Len(scene) = 0 /\ Len(scene') >= 1 => scene'[1].material.uTime = 0)
        /\ (Len(scene) >= 1 /\ Len(scene') >= 1 =>
               scene'[1].material.uTime >= scene[1].material.uTime) ]_vars

\* uTime has been raised, then written again without a clock advance.
C4_Witness ==
    /\ Len(scene) = 1
    /\ frame.meshes = 1 /\ prevFrame.meshes = 1
    /\ scene[1].material.uTime >= 2
    /\ prevFrame.uniforms.uTime = scene[1].material.uTime

\* C5: while the load is pending or has failed, the system stays suspended:
\* Wave is not constructed, the scene has no mesh, no callback is
\* subscribed, no frame shows a mesh, the root is intact and no error has
\* been thrown out of it.
C5_FailureIsBlankScene ==
    (cache.status \in {"pending", "rejected"} /\ page # "unmounted") =>
        /\ page = "intact"
        /\ ~uncaught
        /\ fiber = "suspended"
        /\ scene = << >>
        /\ subscribers = {}
        /\ (frame.drawn => frame.meshes = 0)

\* C6: the request for the texture is issued by the first render of Wave and
\* by no later one, whether the load is pending, has failed or has resolved.
C6_OneRequest ==
    /\ requests <= 1
    /\ (renders >= 1 => requests = 1)
    /\ (requests = 1 <=> cache.status # "none")

\* Wave has been rendered again after the load resolved and it mounted.
C6_Witness ==
    /\ requests = 1
    /\ renders >= 3
    /\ fiber = "mounted"
    /\ cache.status = "resolved"

\* C7: with the mounted mesh's uTime, texture and geometry, every tint
\* colour gives the same displaced positions and the same output colours.
C7_TintIsDead ==
    Len(scene) >= 1 =>
        \A c \in TintColors \ {scene[1].material.uColor} :
            DrawMesh([scene[1] EXCEPT !.material.uColor = c]) = DrawMesh(scene[1])

\* A frame drawn with the hot pink tint at a non-zero time equals the one a
\* black tint would give.
C7_Witness ==
    /\ frame.meshes = 1
    /\ frame.uniforms.uColor = HotPink
    /\ frame.uniforms.uTime > 0
    /\ frame.pixels = DrawMesh([geometry |-> planeBufferGeometry,
                                material |-> [frame.uniforms EXCEPT !.uColor = Black]])

\* C8: two consecutive frames drawn with the mesh at the same elapsed time
\* have the same shader inputs and the same output at every vertex.
C8_FrozenTimeIdempotent ==
    (frame.meshes >= 1 /\ prevFrame.meshes >= 1 /\ frame.elapsed = prevFrame.elapsed) =>
        /\ frame.uniforms = prevFrame.uniforms
        /\ frame.pixels = prevFrame.pixels

\* Two consecutive ticks on which the clock, already advanced, stood still.
C8_Witness ==
    /\ frame.meshes = 1 /\ prevFrame.meshes = 1
    /\ frame.elapsed = prevFrame.elapsed
    /\ frame.elapsed > 0

C10_RefBoundWhenSubscribed ==
    /\ ~derefError
    /\ (subscribers # {} => ref = 1 /\ Len(scene) = 1)
    /\ (ref = 0 => subscribers = {})

\* A tick has run while Wave was suspended on the pending texture.
C10_Witness ==
    /\ fiber = "suspended"
    /\ cache.status = "pending"
    /\ frame.drawn /\ frame.meshes = 0
====
